---- MODULE Spec2Model ----
(***************************************************************************)
(* Model of the medication tracker core (src/medicationtracker.rs):        *)
(* the MedicationTracker store, its mutating operations, its queries and   *)
(* the two flat text files it persists to.                                 *)
(*                                                                         *)
(* Strings are sequences of one-character strings, so that formatting,     *)
(* splitting on ',' and on line ends, and comparison are computed as the   *)
(* code computes them.  u32 values are pairs of 16-bit limbs [hi, lo]      *)
(* (value = hi * 65536 + lo), which keeps the real 32-bit width.           *)
(*                                                                         *)
(* A HashMap is a function from its keys; the order in which it is         *)
(* iterated is unspecified, so every save picks one of all orders and      *)
(* every query takes the order as a parameter.                             *)
(*                                                                         *)
(* An addition that leaves the u32 range panics in a build with overflow   *)
(* checks and wraps in a build without; refill_medication may do either.   *)
(* Failing file operations are not modelled.                               *)
(*                                                                         *)
(* last and calls are history variables: the call made by the last step    *)
(* and the number of calls so far.                                         *)
(***************************************************************************)
EXTENDS Integers, Sequences, FiniteSets, TLC

VARIABLES medications, daily_logs, data_file, log_file, alive, last, calls

vars == <<medications, daily_logs, data_file, log_file, alive, last, calls>>

----------------------------------------------------------------------------
(* Bounds of the exploration *)

\* number of calls made on the store in one behaviour
MaxCalls == 3

----------------------------------------------------------------------------
(* Characters and strings *)

COMMA == ","
NL == "\n"
CR == "\r"

DigitChars == <<"0", "1", "2", "3", "4", "5", "6", "7", "8", "9">>

\* byte value of the characters the model uses (String::cmp compares bytes)
Code(c) ==
    CASE c = "\n" -> 10
      [] c = "\r" -> 13
      [] c = " " -> 32
      [] c = "(" -> 40
      [] c = ")" -> 41
      [] c = "+" -> 43
      [] c = "," -> 44
      [] c = "-" -> 45
      [] c = "0" -> 48
      [] c = "1" -> 49
      [] c = "2" -> 50
      [] c = "3" -> 51
      [] c = "4" -> 52
      [] c = "5" -> 53
      [] c = "6" -> 54
      [] c = "7" -> 55
      [] c = "8" -> 56
      [] c = "9" -> 57
      [] c = "A" -> 65
      [] c = "B" -> 66
      [] c = "W" -> 87
      [] c = "e" -> 101
      [] c = "m" -> 109
      [] c = "x" -> 120
      [] c = "y" -> 121

IsDigit(c) == Code(c) >= 48 /\ Code(c) <= 57

\* a.cmp(&b) == Less on strings: lexicographic on bytes, a proper prefix first
RECURSIVE StrLess(_, _)
StrLess(a, b) ==
    IF b = <<>> THEN FALSE
    ELSE IF a = <<>> THEN TRUE
    ELSE IF Code(Head(a)) # Code(Head(b)) THEN Code(Head(a)) < Code(Head(b))
    ELSE StrLess(Tail(a), Tail(b))

\* s.split(sep): the pieces between separators, always at least one piece
RECURSIVE Split(_, _)
Split(s, sep) ==
    IF \A i \in 1..Len(s) : s[i] # sep THEN <<s>>
    ELSE LET k == CHOOSE i \in 1..Len(s) :
                      s[i] = sep /\ \A j \in 1..(i - 1) : s[j] # sep
         IN  <<SubSeq(s, 1, k - 1)>> \o Split(SubSeq(s, k + 1, Len(s)), sep)

\* BufRead::lines(): pieces ended by "\n", a "\r" before the "\n" dropped,
\* a last piece without "\n" kept as it is, nothing after a final "\n"
RECURSIVE Lines(_)
Lines(bytes) ==
    IF bytes = <<>> THEN <<>>
    ELSE IF \A i \in 1..Len(bytes) : bytes[i] # NL THEN <<bytes>>
    ELSE LET k == CHOOSE i \in 1..Len(bytes) :
                      bytes[i] = NL /\ \A j \in 1..(i - 1) : bytes[j] # NL
             raw == SubSeq(bytes, 1, k - 1)
             line == IF raw # <<>> /\ raw[Len(raw)] = CR
                     THEN SubSeq(raw, 1, Len(raw) - 1) ELSE raw
         IN  <<line>> \o Lines(SubSeq(bytes, k + 1, Len(bytes)))

\* concatenation of a sequence of strings
RECURSIVE Concat(_)
Concat(ss) == IF ss = <<>> THEN <<>> ELSE Head(ss) \o Concat(Tail(ss))

----------------------------------------------------------------------------
(* u32 *)

Limb == 65536

U32(hi, lo) == [hi |-> hi, lo |-> lo]
U32Zero == U32(0, 0)
U32One == U32(0, 1)
U32Max == U32(Limb - 1, Limb - 1)

\* a + b with the carry out of bit 31
AddCarry(a, b) ==
    LET lo == a.lo + b.lo
        hi == a.hi + b.hi + (lo \div Limb)
    IN  [sum |-> U32(hi % Limb, lo % Limb), carry |-> hi >= Limb]

\* a - 1 for a > 0
Pred(a) == IF a.lo > 0 THEN U32(a.hi, a.lo - 1) ELSE U32(a.hi - 1, Limb - 1)

U32Leq(a, b) == a.hi < b.hi \/ (a.hi = b.hi /\ a.lo <= b.lo)

Div10(a) ==
    LET t == (a.hi % 10) * Limb + a.lo
    IN  U32(a.hi \div 10, t \div 10)

Mod10(a) == ((a.hi % 10) * Limb + a.lo) % 10

\* format!("{}", n) for n: u32
RECURSIVE FormatU32(_)
FormatU32(a) ==
    IF a.hi = 0 /\ a.lo < 10 THEN <<DigitChars[a.lo + 1]>>
    ELSE FormatU32(Div10(a)) \o <<DigitChars[Mod10(a) + 1]>>

\* str::parse::<u32>(): an optional '+', then one or more digits, the value
\* within u32; None for anything else
None == [none |-> TRUE]

\* acc.checked_mul(10) and then checked_add(d): carry when either overflows
Mul10Add(acc, d) ==
    LET lo == acc.lo * 10 + d
        hi == acc.hi * 10 + (lo \div Limb)
    IN  [sum |-> U32(hi % Limb, lo % Limb), carry |-> hi >= Limb]

RECURSIVE ParseDigits(_, _)
ParseDigits(s, acc) ==
    IF s = <<>> THEN acc
    ELSE IF ~IsDigit(Head(s)) THEN None
    ELSE IF Mul10Add(acc, Code(Head(s)) - 48).carry THEN None
    ELSE ParseDigits(Tail(s), Mul10Add(acc, Code(Head(s)) - 48).sum)

ParseU32(s) ==
    LET digits == IF s # <<>> /\ Head(s) = "+" THEN Tail(s) ELSE s
    IN  IF digits = <<>> THEN None ELSE ParseDigits(digits, U32Zero)

\* parts[i].parse().unwrap_or(0)
ParseOrZero(s) == IF ParseU32(s) = None THEN U32Zero ELSE ParseU32(s)

----------------------------------------------------------------------------
(* Values the calls are made with *)

Names == { <<"A">>, <<"B">> }
Dosages == { <<"x">>, <<"x", ",", "y">> }
Times == { <<"m">> }
Counts == { U32One }
Amounts == { U32One }
Dates == { <<"W", "-", "6">>, <<"W", "-", "7">> }
WeekStarts == { <<"W">> }

----------------------------------------------------------------------------
(* HashMap<String, V> as a function from its keys *)

EmptyMap == [k \in {} |-> k]

Insert(map, key, value) ==
    [k \in (DOMAIN map) \cup {key} |-> IF k = key THEN value ELSE map[k]]

\* the orders in which a HashMap with this key set may be iterated
Orders(keys) ==
    { ord \in [1..Cardinality(keys) -> keys] :
        \A i, j \in 1..Cardinality(keys) : ord[i] = ord[j] => i = j }

----------------------------------------------------------------------------
(* The two persisted files *)

NoFile == [exists |-> FALSE, bytes |-> <<>>]
FileOf(bytes) == [exists |-> TRUE, bytes |-> bytes]

\* fault: the two counts written in the other order
MedLineSwapped(med) ==
    med.name \o <<COMMA>> \o med.dosage \o <<COMMA>> \o med.time_of_day
        \o <<COMMA>> \o FormatU32(med.total_prescribed)
        \o <<COMMA>> \o FormatU32(med.current_count) \o <<NL>>

\* one record of the medications file
MedLine(med) ==
    med.name \o <<COMMA>> \o med.dosage \o <<COMMA>> \o med.time_of_day
        \o <<COMMA>> \o FormatU32(med.current_count)
        \o <<COMMA>> \o FormatU32(med.total_prescribed) \o <<NL>>

\* one record of the logs file
LogLine(date, med_name, taken) ==
    date \o <<COMMA>> \o med_name \o <<COMMA>>
        \o <<IF taken THEN "1" ELSE "0">> \o <<NL>>

\* fault: the loop left after its first record
SaveDataFirstOnly(meds, ord) ==
    FileOf(IF ord = <<>> THEN <<>> ELSE MedLine(meds[ord[1]]))

\* save_data: the file truncated and written in the map's iteration order
SaveData(meds, ord) ==
    FileOf(Concat([i \in 1..Len(ord) |-> MedLine(meds[ord[i]])]))

SaveDataOutcomes(meds) == { SaveData(meds, ord) : ord \in Orders(DOMAIN meds) }

\* the records of one DailyLog in the iteration order of its taken map
LogRecords(log, ord) ==
    Concat([i \in 1..Len(ord) |-> LogLine(log.date, ord[i], log.taken[ord[i]])])

\* the iteration orders of the taken maps of all logs
TakenOrders(logs) ==
    { f \in [DOMAIN logs -> UNION { Orders(DOMAIN logs[d].taken) : d \in DOMAIN logs }] :
        \A d \in DOMAIN logs : f[d] \in Orders(DOMAIN logs[d].taken) }

\* save_logs: the file truncated and written log by log
SaveLogs(logs, dateOrd, takenOrd) ==
    FileOf(Concat([i \in 1..Len(dateOrd) |->
                      LogRecords(logs[dateOrd[i]], takenOrd[dateOrd[i]])]))

SaveLogsOutcomes(logs) ==
    { SaveLogs(logs, dateOrd, takenOrd) :
        dateOrd \in Orders(DOMAIN logs), takenOrd \in TakenOrders(logs) }

\* load_data: every line with exactly five parts inserts a medication
RECURSIVE LoadMedLines(_, _)
LoadMedLines(lines, meds) ==
    IF lines = <<>> THEN meds
    ELSE LET parts == Split(Head(lines), COMMA)
         IN  IF Len(parts) = 5
             THEN LoadMedLines(Tail(lines),
                      Insert(meds, parts[1],
                             [name |-> parts[1],
                              dosage |-> parts[2],
                              time_of_day |-> parts[3],
                              current_count |-> ParseOrZero(parts[4]),
                              total_prescribed |-> ParseOrZero(parts[5])]))
             ELSE LoadMedLines(Tail(lines), meds)

LoadData(file) ==
    IF ~file.exists THEN EmptyMap ELSE LoadMedLines(Lines(file.bytes), EmptyMap)

\* load_logs: every line with exactly three parts sets one flag
RECURSIVE LoadLogLines(_, _)
LoadLogLines(lines, logs) ==
    IF lines = <<>> THEN logs
    ELSE LET parts == Split(Head(lines), COMMA)
             date == parts[1]
             log == IF date \in DOMAIN logs THEN logs[date]
                    ELSE [date |-> date, taken |-> EmptyMap]
         IN  IF Len(parts) = 3
             THEN LoadLogLines(Tail(lines),
                      Insert(logs, date,
                             [log EXCEPT !.taken =
                                 Insert(log.taken, parts[2], parts[3] = <<"1">>)]))
             ELSE LoadLogLines(Tail(lines), logs)

LoadLogs(file) ==
    IF ~file.exists THEN EmptyMap ELSE LoadLogLines(Lines(file.bytes), EmptyMap)

----------------------------------------------------------------------------
(* The state changes of the mutating operations *)

\* fault: medications.entry(name).or_insert(..), an existing record kept
AddMedicationMedsKeep(meds, name, dosage, time_of_day, count) ==
    IF name \in DOMAIN meds THEN meds
    ELSE Insert(meds, name,
                [name |-> name, dosage |-> dosage, time_of_day |-> time_of_day,
                 current_count |-> count, total_prescribed |-> count])

\* medications.insert(name, Medication { .. }) of add_medication
AddMedicationMeds(meds, name, dosage, time_of_day, count) ==
    Insert(meds, name,
           [name |-> name, dosage |-> dosage, time_of_day |-> time_of_day,
            current_count |-> count, total_prescribed |-> count])

\* fault: the existence check left out
ContainsKeyUnchecked(meds, med_name) == TRUE

\* medications.contains_key(med_name)
ContainsKey(meds, med_name) == med_name \in DOMAIN meds

\* daily_logs.entry(date).or_insert(..).taken.insert(med_name, taken)
MarkTakenLogs(logs, med_name, date, taken) ==
    LET log == IF date \in DOMAIN logs THEN logs[date]
               ELSE [date |-> date, taken |-> EmptyMap]
    IN  Insert(logs, date, [log EXCEPT !.taken = Insert(log.taken, med_name, taken)])

\* fault: wrapping_sub(1) without the test for zero
MarkTakenCountWrapping(current_count, taken) ==
    IF ~taken THEN current_count
    ELSE IF current_count = U32Zero THEN U32Max ELSE Pred(current_count)

\* the count of a medication after it is marked
MarkTakenCount(current_count, taken) ==
    IF taken /\ current_count # U32Zero THEN Pred(current_count) ELSE current_count

\* fault: a dose taken also taken off total_prescribed
MarkTakenMedsBoth(meds, med_name, taken) ==
    IF med_name \in DOMAIN meds
    THEN [meds EXCEPT ![med_name].current_count = MarkTakenCount(@, taken),
                      ![med_name].total_prescribed = MarkTakenCount(@, taken)]
    ELSE meds

\* if taken { if let Some(med) = medications.get_mut(med_name) { .. } }
MarkTakenMeds(meds, med_name, taken) ==
    IF med_name \in DOMAIN meds
    THEN [meds EXCEPT ![med_name].current_count = MarkTakenCount(@, taken)]
    ELSE meds

\* a refill that leaves total_prescribed as it was
RefillMedsCurrentOnly(meds, name, amount) ==
    [meds EXCEPT ![name].current_count = AddCarry(@, amount).sum]

\* med.current_count += amount; med.total_prescribed += amount, with wrapping
RefillMeds(meds, name, amount) ==
    [meds EXCEPT ![name].current_count = AddCarry(@, amount).sum,
                 ![name].total_prescribed = AddCarry(@, amount).sum]

\* one of the two additions leaves the u32 range
RefillOverflows(meds, name, amount) ==
    \/ AddCarry(meds[name].current_count, amount).carry
    \/ AddCarry(meds[name].total_prescribed, amount).carry

----------------------------------------------------------------------------
(* The queries.  ord is the order in which the medications map is iterated *)

\* daily_logs.get(date).and_then(|log| log.taken.get(name)).copied().unwrap_or(false)
TakenFlag(logs, date, name) ==
    IF date \in DOMAIN logs
    THEN IF name \in DOMAIN logs[date].taken THEN logs[date].taken[name] ELSE FALSE
    ELSE FALSE

\* format!("{} ({})", med.dosage, med.time_of_day)
Details(med) == med.dosage \o <<" ", "(">> \o med.time_of_day \o <<")">>

TakenText == <<"T", "a", "k", "e", "n">>

\* format!("REMINDER: Take {} at {}", name, med.time_of_day)
ReminderText(name, med) == <<"R", "E", "M", "I", "N", "D", "E", "R", ":", " ", "T", "a", "k", "e", " ">> \o name \o <<" ", "a", "t", " ">> \o med.time_of_day

\* the tuple pushed for one medication
StatusEntry(meds, logs, date, name) ==
    LET taken == TakenFlag(logs, date, name)
    IN  <<name, Details(meds[name]), taken,
          IF ~taken THEN ReminderText(name, meds[name]) ELSE TakenText>>

\* fault: sorted on the name, a.0.cmp(&b.0)
StatusLessByName(a, b) == StrLess(a[1], b[1])

\* the comparison of status.sort_by: a.1.cmp(&b.1) == Less
StatusLess(a, b) == StrLess(a[2], b[2])

\* e put behind every entry that does not compare greater than it
SortedInsert(sorted, e) ==
    LET n == Cardinality({ i \in 1..Len(sorted) : ~StatusLess(e, sorted[i]) })
    IN  SubSeq(sorted, 1, n) \o <<e>> \o SubSeq(sorted, n + 1, Len(sorted))

\* status.sort_by(..): a stable sort
RECURSIVE SortStatus(_)
SortStatus(status) ==
    IF status = <<>> THEN <<>>
    ELSE SortedInsert(SortStatus(SubSeq(status, 1, Len(status) - 1)),
                      status[Len(status)])

check_today_status(meds, logs, date, ord) ==
    SortStatus([i \in 1..Len(ord) |-> StatusEntry(meds, logs, date, ord[i])])

\* format!("{} at {}", name, med.time_of_day)
MissedText(name, med) == name \o <<" ", "a", "t", " ">> \o med.time_of_day

\* fault: only a recorded false flag counts as missed
MissedRecorded(logs, date, name) ==
    /\ date \in DOMAIN logs
    /\ name \in DOMAIN logs[date].taken
    /\ ~logs[date].taken[name]

\* if !taken of get_missed_medications
Missed(logs, date, name) == ~TakenFlag(logs, date, name)

RECURSIVE get_missed_medications(_, _, _, _)
get_missed_medications(meds, logs, date, ord) ==
    IF ord = <<>> THEN <<>>
    ELSE (IF Missed(logs, date, Head(ord))
          THEN <<MissedText(Head(ord), meds[Head(ord)])>> ELSE <<>>)
         \o get_missed_medications(meds, logs, date, Tail(ord))

\* the struct's patient_name
patient_name == <<"P">>

Days == << <<"M", "o", "n">>, <<"T", "u", "e">>, <<"W", "e", "d">>,
          <<"T", "h", "u">>, <<"F", "r", "i">>, <<"S", "a", "t">>, <<"S", "u", "n">> >>

\* fault: the days numbered from 1
DayDateFromOne(week_start, i) == week_start \o <<"-">> \o FormatU32(U32(0, i + 1))

\* format!("{}-{}", week_start, i) for the day index i
DayDate(week_start, i) == week_start \o <<"-">> \o FormatU32(U32(0, i))

\* taken_count after the first n days of the loop
RECURSIVE TakenCount(_, _, _, _)
TakenCount(logs, med_name, week_start, n) ==
    IF n = 0 THEN 0
    ELSE TakenCount(logs, med_name, week_start, n - 1)
         + (IF TakenFlag(logs, DayDate(week_start, n - 1), med_name) THEN 1 ELSE 0)

\* the "{} {} " pushed for each day
DailyRecord(logs, med_name, week_start) ==
    Concat([i \in 1..7 |->
        Days[i] \o <<" ">>
        \o (IF TakenFlag(logs, DayDate(week_start, i - 1), med_name)
            THEN <<"[", "X", "]">> ELSE <<"[", " ", "]">>)
        \o <<" ">>])

\* format!("{:.1}", (taken_count as f32 / 7.0) * 100.0)
Percent(taken_count) ==
    LET tenths == (taken_count * 2000 + 7) \div 14
    IN  FormatU32(U32(0, tenths \div 10)) \o <<".">> \o <<DigitChars[(tenths % 10) + 1]>>

\* the text pushed for one medication
MedSection(meds, logs, week_start, med_name) ==
    LET med == meds[med_name]
        taken_count == TakenCount(logs, med_name, week_start, 7)
    IN  <<"M", "E", "D", "I", "C", "A", "T", "I", "O", "N", ":", " ">> \o med_name \o <<" ", "(">> \o med.dosage \o <<")", "\n">>
        \o <<"D", "a", "i", "l", "y", " ", "R", "e", "c", "o", "r", "d", ":", " ">>
        \o DailyRecord(logs, med_name, week_start)
        \o <<"\n", "A", "d", "h", "e", "r", "e", "n", "c", "e", ":", " ">> \o FormatU32(U32(0, taken_count)) \o <<"/", "7", " ", "d", "a", "y", "s", " ", "(">>
        \o Percent(taken_count) \o <<"%", ")", "\n">>
        \o <<"R", "e", "m", "a", "i", "n", "i", "n", "g", ":", " ">> \o FormatU32(med.current_count) \o <<" ", "o", "f", " ">>
        \o FormatU32(med.total_prescribed) \o <<" ", "d", "o", "s", "e", "s", "\n", "\n">>

\* missed.join(", ")
RECURSIVE Join(_)
Join(ss) ==
    IF ss = <<>> THEN <<>>
    ELSE IF Len(ss) = 1 THEN ss[1]
    ELSE ss[1] \o <<",", " ">> \o Join(Tail(ss))

\* a count of every flag of the log, true or false
TakenMedsAll(logs, date) ==
    IF date \in DOMAIN logs THEN Cardinality(DOMAIN logs[date].taken) ELSE 0

\* log.taken.values().filter(|&&v| v).count(), 0 without a log
TakenMeds(logs, date) ==
    IF date \in DOMAIN logs
    THEN Cardinality({ n \in DOMAIN logs[date].taken : logs[date].taken[n] })
    ELSE 0

\* the line of the daily overview for the day index i
OverviewLine(meds, logs, week_start, i, ord) ==
    LET date == DayDate(week_start, i)
        total_meds == Cardinality(DOMAIN meds)
        taken_meds == TakenMeds(logs, date)
        missed == get_missed_medications(meds, logs, date, ord)
    IN  Days[i + 1] \o <<":", " ">> \o FormatU32(U32(0, taken_meds)) \o <<"/">>
        \o FormatU32(U32(0, total_meds)) \o <<" ", "m", "e", "d", "i", "c", "a", "t", "i", "o", "n", "s", " ", "t", "a", "k", "e", "n">>
        \o (IF taken_meds < total_meds /\ missed # <<>>
            THEN <<" ", "-", " ", "M", "I", "S", "S", "E", "D", ":", " ">> \o Join(missed) ELSE <<>>)
        \o <<NL>>

generate_weekly_summary(meds, logs, week_start, ord) ==
    <<"\n", "=", "=", "=", "=", "=", "=", "=", "=", "=", "=", " ", "W", "E", "E", "K", "L", "Y", " ", "S", "U", "M", "M", "A", "R", "Y", " ", "F", "O", "R", " ">> \o patient_name \o <<" ", "=", "=", "=", "=", "=", "=", "=", "=", "=", "=", "\n">>
    \o <<"W", "e", "e", "k", " ", "s", "t", "a", "r", "t", "i", "n", "g", ":", " ">> \o week_start \o <<NL, NL>>
    \o Concat([k \in 1..Len(ord) |-> MedSection(meds, logs, week_start, ord[k])])
    \o <<"D", "A", "I", "L", "Y", " ", "O", "V", "E", "R", "V", "I", "E", "W", ":", "\n">>
    \o Concat([i \in 1..7 |-> OverviewLine(meds, logs, week_start, i - 1, ord)])
    \o <<"\n", "=", "=", "=", "=", "=", "=", "=", "=", "=", "=", "=", "=", "=", "=", "=", "=", "=", "=", "=", "=", "=", "=", "=", "=", "=", "=", "=", "=", "=", "=", "=", "=", "=", "=", "=", "=", "=", "=", "=", "=", "=", "=", "\n">>

----------------------------------------------------------------------------
(* The record of the last call: its arguments, its result, the files it wrote *)

Call(op, name, dosage, time_of_day, count, date, taken, result, wrote) ==
    [op |-> op, name |-> name, dosage |-> dosage, time_of_day |-> time_of_day,
     count |-> count, date |-> date, taken |-> taken, result |-> result,
     wrote |-> wrote]

NoCall == Call("none", <<>>, <<>>, <<>>, U32Zero, <<>>, FALSE, "ok", {})

----------------------------------------------------------------------------
(* The state machine *)

\* the files a run starts with: none, or the two files left by an earlier run
\* that added "A" with 4294967295 doses and marked it taken on "W-0"
StartFiles ==
    { [data |-> NoFile, log |-> NoFile],
      [data |-> FileOf(<<"A", ",", "x", ",", "m", ",", "4", "2", "9", "4", "9", "6", "7", "2", "9", "4", ",", "4", "2", "9", "4", "9", "6", "7", "2", "9", "5", "\n">>),
       log |-> FileOf(<<"W", "-", "0", ",", "A", ",", "1", "\n">>)] }

\* MedicationTracker::new: the store loaded from the files that are there
Init ==
    /\ \E files \in StartFiles :
          /\ data_file = files.data
          /\ log_file = files.log
    /\ medications = LoadData(data_file)
    /\ daily_logs = LoadLogs(log_file)
    /\ alive = TRUE
    /\ last = NoCall
    /\ calls = 0

\* MedicationTracker::new: a fresh store loaded from the two files
New ==
    /\ calls < MaxCalls
    /\ alive' = TRUE
    /\ medications' = LoadData(data_file)
    /\ daily_logs' = LoadLogs(log_file)
    /\ last' = Call("new", <<>>, <<>>, <<>>, U32Zero, <<>>, FALSE, "ok", {})
    /\ calls' = calls + 1
    /\ UNCHANGED <<data_file, log_file>>

add_medication(name, dosage, time_of_day, count) ==
    /\ alive
    /\ calls < MaxCalls
    /\ medications' = AddMedicationMeds(medications, name, dosage, time_of_day, count)
    /\ data_file' \in SaveDataOutcomes(medications')
    /\ last' = Call("add_medication", name, dosage, time_of_day, count, <<>>,
                    FALSE, "ok", {"data"})
    /\ calls' = calls + 1
    /\ UNCHANGED <<daily_logs, log_file, alive>>

mark_taken(med_name, date, taken) ==
    /\ alive
    /\ calls < MaxCalls
    /\ calls' = calls + 1
    /\ IF ~ContainsKey(medications, med_name)
       THEN /\ last' = Call("mark_taken", med_name, <<>>, <<>>, U32Zero, date,
                            taken, "not_found", {})
            /\ UNCHANGED <<medications, daily_logs, data_file, log_file, alive>>
       ELSE /\ daily_logs' = MarkTakenLogs(daily_logs, med_name, date, taken)
            /\ medications' = MarkTakenMeds(medications, med_name, taken)
            /\ log_file' \in SaveLogsOutcomes(daily_logs')
            /\ data_file' \in SaveDataOutcomes(medications')
            /\ last' = Call("mark_taken", med_name, <<>>, <<>>, U32Zero, date,
                            taken, "ok", {"data", "log"})
            /\ UNCHANGED alive

\* an addition that leaves the u32 range panics where overflow checks are
\* compiled in and wraps where they are not; a panic ends the process before
\* save_data, and the store is lost with it
refill_medication(name, amount) ==
    /\ alive
    /\ calls < MaxCalls
    /\ calls' = calls + 1
    /\ IF name \notin DOMAIN medications
       THEN /\ last' = Call("refill_medication", name, <<>>, <<>>, amount, <<>>,
                            FALSE, "not_found", {})
            /\ UNCHANGED <<medications, daily_logs, data_file, log_file, alive>>
       ELSE \/ /\ medications' = RefillMeds(medications, name, amount)
               /\ data_file' \in SaveDataOutcomes(medications')
               /\ last' = Call("refill_medication", name, <<>>, <<>>, amount,
                               <<>>, FALSE, "ok", {"data"})
               /\ UNCHANGED <<daily_logs, log_file, alive>>
            \/ /\ RefillOverflows(medications, name, amount)
               /\ alive' = FALSE
               /\ medications' = EmptyMap
               /\ daily_logs' = EmptyMap
               /\ last' = Call("refill_medication", name, <<>>, <<>>, amount,
                               <<>>, FALSE, "panic", {})
               /\ UNCHANGED <<data_file, log_file>>

AddMedication ==
    \E name \in Names, dosage \in Dosages, time_of_day \in Times, count \in Counts :
        add_medication(name, dosage, time_of_day, count)

MarkTaken ==
    \E med_name \in Names, date \in Dates, taken \in BOOLEAN :
        mark_taken(med_name, date, taken)

RefillMedication ==
    \E name \in Names, amount \in Amounts : refill_medication(name, amount)

Next == New \/ AddMedication \/ MarkTaken \/ RefillMedication

Spec == Init /\ [][Next]_vars

\* A single run of the program that starts with no files and is not
\* restarted: MedicationTracker::new finds nothing to load
FreshInit ==
    /\ data_file = NoFile
    /\ log_file = NoFile
    /\ medications = LoadData(data_file)
    /\ daily_logs = LoadLogs(log_file)
    /\ alive = TRUE
    /\ last = NoCall
    /\ calls = 0

\* the counts given to add_medication in such a run
FreshCounts == { U32One, U32Max }

AddMedicationFresh ==
    \E name \in Names, dosage \in Dosages, time_of_day \in Times,
       count \in FreshCounts :
        add_medication(name, dosage, time_of_day, count)

FreshNext == AddMedicationFresh \/ MarkTaken \/ RefillMedication

FreshSpec == FreshInit /\ [][FreshNext]_vars

----------------------------------------------------------------------------
(* Properties *)

\* the step is a call of one of the three mutating operations
Mutating(op) == op \in {"add_medication", "mark_taken", "refill_medication"}

\* b is a + 1 as numbers
IsSucc(a, b) == AddCarry(a, U32One) = [sum |-> b, carry |-> FALSE]

\* C1: for a known medication m, mark_taken(m, d, taken) succeeds, leaves m's
\* current_count one lower when taken is true and the count was above 0 and
\* leaves it as it was otherwise, whatever flag was recorded for (d, m)
\* before; afterwards the flag for (d, m) is the one given.
C1_MarkTakenCount ==
    [][ (calls' # calls /\ last'.op = "mark_taken"
            /\ last'.name \in DOMAIN medications)
        => LET m == last'.name
               before == medications[m].current_count
           IN  /\ last'.result = "ok"
               /\ m \in DOMAIN medications'
               /\ IF last'.taken /\ before # U32Zero
                  THEN IsSucc(medications'[m].current_count, before)
                  ELSE medications'[m].current_count = before
               /\ last'.date \in DOMAIN daily_logs'
               /\ m \in DOMAIN daily_logs'[last'.date].taken
               /\ daily_logs'[last'.date].taken[m] = last'.taken ]_vars

\* C1 witness: the medication stored with 4294967294 left of 4294967295 is
\* marked taken twice on one new date and then missed on it: two more doses
\* gone, the flag false
C1_Witness ==
    /\ calls = 3
    /\ last.op = "mark_taken" /\ last.result = "ok" /\ ~last.taken
    /\ DOMAIN medications = {last.name}
    /\ DOMAIN daily_logs = {<<"W", "-", "0">>, last.date}
    /\ DOMAIN daily_logs[last.date].taken = {last.name}
    /\ medications[last.name].total_prescribed = U32Max
    /\ medications[last.name].current_count = U32(Limb - 1, Limb - 4)
    /\ ~daily_logs[last.date].taken[last.name]

\* C2: mark_taken and refill_medication with a name that is not a key of
\* medications return the not-found error, change no medication and no
\* daily log, and write neither file.
C2_UnknownNameNoChange ==
    [][ (calls' # calls /\ last'.op \in {"mark_taken", "refill_medication"}
            /\ last'.name \notin DOMAIN medications)
        => /\ last'.result = "not_found"
           /\ last'.wrote = {}
           /\ medications' = medications
           /\ daily_logs' = daily_logs
           /\ data_file' = data_file
           /\ log_file' = log_file ]_vars

\* C2 witness: a store that holds a medication and a log has just refused
\* to mark an unknown one taken
C2_Witness ==
    /\ last.op = "mark_taken" /\ last.result = "not_found" /\ last.taken
    /\ last.name \notin DOMAIN medications
    /\ DOMAIN medications # {}
    /\ DOMAIN daily_logs # {}

\* C3: refill_medication(M, A) on a known M leaves current_count and
\* total_prescribed of M higher by exactly A, for every u32 A, and changes
\* no other medication and no daily log.
C3_RefillAddsExactly ==
    [][ (calls' # calls /\ last'.op = "refill_medication"
            /\ last'.name \in DOMAIN medications)
        => LET m == last'.name
           IN  /\ DOMAIN medications' = DOMAIN medications
               /\ AddCarry(medications[m].current_count, last'.count)
                    = [sum |-> medications'[m].current_count, carry |-> FALSE]
               /\ AddCarry(medications[m].total_prescribed, last'.count)
                    = [sum |-> medications'[m].total_prescribed, carry |-> FALSE]
               /\ \A n \in DOMAIN medications \ {m} :
                      medications'[n] = medications[n]
               /\ daily_logs' = daily_logs ]_vars

\* C4: after add_medication(name, dosage, time, Q) the medication under name
\* has exactly the given dosage and time and current_count =
\* total_prescribed = Q, whether or not the name was there before; every
\* other medication and every daily log is as it was.
C4_AddSetsRecord ==
    [][ (calls' # calls /\ last'.op = "add_medication")
        => /\ DOMAIN medications' = DOMAIN medications \cup {last'.name}
           /\ medications'[last'.name] =
                 [name |-> last'.name, dosage |-> last'.dosage,
                  time_of_day |-> last'.time_of_day,
                  current_count |-> last'.count,
                  total_prescribed |-> last'.count]
           /\ \A n \in DOMAIN medications \ {last'.name} :
                  medications'[n] = medications[n]
           /\ daily_logs' = daily_logs ]_vars

\* C4 witness: a medication with a true flag in a log, so one that was there
\* and was marked, has just been added again with a full count of 1
C4_Witness ==
    /\ last.op = "add_medication" /\ last.count = U32One
    /\ \E d \in DOMAIN daily_logs :
          /\ last.name \in DOMAIN daily_logs[d].taken
          /\ daily_logs[d].taken[last.name]
    /\ medications[last.name].current_count = U32One
    /\ medications[last.name].total_prescribed = U32One

\* no comma and no newline in s
NoDelimiter(s) == \A i \in 1..Len(s) : s[i] # COMMA /\ s[i] # NL

\* no field value held by the store contains a comma or a newline
NoDelimiters ==
    /\ \A n \in DOMAIN medications :
          /\ NoDelimiter(n)
          /\ NoDelimiter(medications[n].name)
          /\ NoDelimiter(medications[n].dosage)
          /\ NoDelimiter(medications[n].time_of_day)
    /\ \A d \in DOMAIN daily_logs :
          /\ NoDelimiter(d)
          /\ NoDelimiter(daily_logs[d].date)
          /\ \A n \in DOMAIN daily_logs[d].taken : NoDelimiter(n)

\* C5: whenever the store holds no field value with a comma or a newline, a
\* fresh store loaded from the two files has exactly the medications (all
\* five fields) and exactly the (date, medication) -> taken flags of the
\* store.
C5_RoundTrip ==
    (alive /\ NoDelimiters)
    => /\ LoadData(data_file) = medications
       /\ LoadLogs(log_file) = daily_logs

\* C5 witness: a fresh store has just been loaded from files that hold a
\* medication with counts that differ and a true flag, all without delimiters
C5_Witness ==
    /\ alive /\ NoDelimiters
    /\ last.op = "new"
    /\ \E n \in DOMAIN medications :
          /\ medications[n].current_count # medications[n].total_prescribed
          /\ \E d \in DOMAIN daily_logs :
                n \in DOMAIN daily_logs[d].taken /\ daily_logs[d].taken[n]

\* the flag of (date, name) is recorded and true
LoggedTrue(date, name) ==
    /\ date \in DOMAIN daily_logs
    /\ name \in DOMAIN daily_logs[date].taken
    /\ daily_logs[date].taken[name] = TRUE

\* C6: check_today_status(D) has exactly one entry per known medication;
\* the entry's taken is true iff a log exists for D and holds true for the
\* medication; its reminder is "Taken" iff taken; its details are
\* "{dosage} ({time_of_day})"; the entries ascend in the details string.
C6_StatusEntries ==
    \A date \in Dates, ord \in Orders(DOMAIN medications) :
        LET status == check_today_status(medications, daily_logs, date, ord)
        IN  /\ Len(status) = Cardinality(DOMAIN medications)
            /\ { status[i][1] : i \in 1..Len(status) } = DOMAIN medications
            /\ \A i \in 1..Len(status) :
                  /\ status[i][3] = LoggedTrue(date, status[i][1])
                  /\ (status[i][4] = <<"T", "a", "k", "e", "n">>) = status[i][3]
                  /\ status[i][2] = medications[status[i][1]].dosage \o <<" ", "(">>
                        \o medications[status[i][1]].time_of_day \o <<")">>
            /\ \A i, j \in 1..Len(status) :
                  i < j => ~StrLess(status[j][2], status[i][2])

\* C6 witness: two medications of which the one with the greater name has
\* the smaller details, one of them taken on a date and the other not
C6_Witness ==
    /\ DOMAIN medications = Names
    /\ medications[<<"A">>].dosage = <<"x", ",", "y">>
    /\ medications[<<"B">>].dosage = <<"x">>
    /\ \E date \in Dates : LoggedTrue(date, <<"A">>) /\ ~LoggedTrue(date, <<"B">>)

\* C7: get_missed_medications(D) has one entry "{name} at {time_of_day}" for
\* each known medication whose flag for D is false or absent and no other
\* entry, so a medication is in it iff check_today_status(D) reports it not
\* taken.
C7_MissedSet ==
    \A date \in Dates, ord \in Orders(DOMAIN medications) :
        LET missed == get_missed_medications(medications, daily_logs, date, ord)
            status == check_today_status(medications, daily_logs, date, ord)
            text(n) == n \o <<" ", "a", "t", " ">> \o medications[n].time_of_day
            unflagged == { n \in DOMAIN medications : ~LoggedTrue(date, n) }
        IN  /\ { missed[i] : i \in 1..Len(missed) } = { text(n) : n \in unflagged }
            /\ Len(missed) = Cardinality(unflagged)
            /\ \A i \in 1..Len(status) :
                  ~status[i][3] <=> \E k \in 1..Len(missed) : missed[k] = text(status[i][1])

\* C7 witness: on one date a medication is taken, and of two others one is
\* marked missed and one has no flag on another date
C7_Witness ==
    /\ DOMAIN medications = Names
    /\ \E d1, d2 \in DOMAIN daily_logs :
          /\ d1 # d2
          /\ LoggedTrue(d1, <<"A">>)
          /\ <<"B">> \in DOMAIN daily_logs[d2].taken
          /\ ~daily_logs[d2].taken[<<"B">>]
          /\ <<"A">> \notin DOMAIN daily_logs[d2].taken

\* the record text of a medication, without the line end
MedRecordText(med) ==
    med.name \o <<",">> \o med.dosage \o <<",">> \o med.time_of_day \o <<",">>
        \o FormatU32(med.current_count) \o <<",">> \o FormatU32(med.total_prescribed)

\* the record text of a flag, without the line end
LogRecordText(date, name) ==
    date \o <<",">> \o name \o <<",">>
        \o (IF daily_logs[date].taken[name] THEN <<"1">> ELSE <<"0">>)

\* the (date, medication) pairs that have a flag
Flags ==
    UNION { { <<d, n>> : n \in DOMAIN daily_logs[d].taken } : d \in DOMAIN daily_logs }

\* every medication of the store has its record, with its current values,
\* among the lines of the medications file
DataFileHasAll ==
    LET lines == Lines(data_file.bytes)
    IN  \A n \in DOMAIN medications :
            \E i \in 1..Len(lines) : lines[i] = MedRecordText(medications[n])

\* every flag of the store has its record among the lines of the logs file
LogFileHasAll ==
    LET lines == Lines(log_file.bytes)
    IN  \A p \in Flags :
            \E i \in 1..Len(lines) : lines[i] = LogRecordText(p[1], p[2])

\* C8: after a successful add_medication, mark_taken or refill_medication
\* the medications file exists and its lines are exactly one record per
\* medication in the store, with the current values, and the call has written
\* it; after a successful mark_taken the same holds of the logs file and the
\* flags; and in no state of a running store does a file lack the current
\* record of a medication or of a flag.
C8_FilesCurrent ==
    /\ (alive /\ Mutating(last.op) /\ last.result = "ok")
       => /\ "data" \in last.wrote
          /\ data_file.exists
          /\ Len(Lines(data_file.bytes)) = Cardinality(DOMAIN medications)
          /\ DataFileHasAll
    /\ (alive /\ last.op = "mark_taken" /\ last.result = "ok")
       => /\ "log" \in last.wrote
          /\ log_file.exists
          /\ Len(Lines(log_file.bytes)) = Cardinality(Flags)
          /\ LogFileHasAll
    /\ alive => (DataFileHasAll /\ LogFileHasAll)

\* C8 witness: a mark_taken has just succeeded on a store with two
\* medications and two flags, one medication below its prescribed total
C8_Witness ==
    /\ alive /\ last.op = "mark_taken" /\ last.result = "ok"
    /\ Cardinality(DOMAIN medications) = 2
    /\ Cardinality(Flags) = 2
    /\ \E n \in DOMAIN medications :
          medications[n].current_count # medications[n].total_prescribed

\* C9 as stated: over the calls of add_medication, mark_taken and
\* refill_medication the total_prescribed of a name in the store never
\* decreases, and only refill_medication changes it.
C9_TotalOnlyGrowsOnRefill ==
    [][ (calls' # calls /\ Mutating(last'.op))
        => \A n \in (DOMAIN medications) \cap (DOMAIN medications') :
              /\ U32Leq(medications[n].total_prescribed,
                        medications'[n].total_prescribed)
              /\ medications'[n].total_prescribed # medications[n].total_prescribed
                    => last'.op = "refill_medication" ]_vars

\* C9 amended: over the calls of add_medication, mark_taken and
\* refill_medication the total_prescribed of a name in the store is changed
\* only by a successful refill_medication of that name or by an
\* add_medication of that name, which sets it to the count given; mark_taken
\* and refused calls never change it.
C9_TotalChangedByRefillOrAdd ==
    [][ (calls' # calls /\ Mutating(last'.op))
        => \A n \in (DOMAIN medications) \cap (DOMAIN medications') :
              /\ medications'[n].total_prescribed # medications[n].total_prescribed
                    => /\ last'.name = n
                       /\ last'.result = "ok"
                       /\ last'.op \in {"refill_medication", "add_medication"}
              /\ (last'.op = "add_medication" /\ last'.name = n)
                    => medications'[n].total_prescribed = last'.count ]_vars

\* C9 witness: a medication added with 1 dose and marked taken has just been
\* refilled by 1: 1 left of 2 prescribed
C9_Witness ==
    /\ last.op = "refill_medication" /\ last.result = "ok"
    /\ last.count = U32One
    /\ medications[last.name].current_count = U32One
    /\ medications[last.name].total_prescribed = U32(0, 2)

\* s begins with prefix
StartsWith(s, prefix) ==
    Len(s) >= Len(prefix) /\ SubSeq(s, 1, Len(prefix)) = prefix

\* the number of day indices 0..6 whose date "{week_start}-{i}" holds a true
\* flag for the medication
DaysTaken(week_start, name) ==
    Cardinality({ i \in 0..6 :
        LoggedTrue(week_start \o <<"-", DigitChars[i + 1]>>, name) })

\* C10: in the text of generate_weekly_summary(week_start) the heading line
\* of each medication occurs once, the adherence line after it reports k/7
\* where k is the number of indices i in 0..6 whose log "{week_start}-{i}"
\* holds a true flag for the medication, and the line after that reports its
\* current_count of its total_prescribed; with no log for any of the seven
\* dates the adherence line reads 0/7 days (0.0%).
C10_WeeklyAdherence ==
    \A week_start \in WeekStarts, ord \in Orders(DOMAIN medications) :
        \A lines \in { Split(generate_weekly_summary(medications, daily_logs,
                                                      week_start, ord), NL) } :
            \A n \in DOMAIN medications :
            LET heading == <<"M", "E", "D", "I", "C", "A", "T", "I", "O", "N", ":", " ">> \o n \o <<" ", "(">> \o medications[n].dosage \o <<")">>
                at == { j \in 1..Len(lines) : lines[j] = heading }
            IN  /\ Cardinality(at) = 1
                /\ \A j \in at :
                      /\ j + 3 <= Len(lines)
                      /\ StartsWith(lines[j + 2],
                            <<"A", "d", "h", "e", "r", "e", "n", "c", "e", ":", " ">> \o <<DigitChars[DaysTaken(week_start, n) + 1]>>
                                \o <<"/", "7", " ", "d", "a", "y", "s", " ", "(">>)
                      /\ lines[j + 3] =
                            <<"R", "e", "m", "a", "i", "n", "i", "n", "g", ":", " ">> \o FormatU32(medications[n].current_count)
                                \o <<" ", "o", "f", " ">> \o FormatU32(medications[n].total_prescribed)
                                \o <<" ", "d", "o", "s", "e", "s">>
                      /\ (\A i \in 0..6 :
                             week_start \o <<"-", DigitChars[i + 1]>> \notin DOMAIN daily_logs)
                         => lines[j + 2] = <<"A", "d", "h", "e", "r", "e", "n", "c", "e", ":", " ", "0", "/", "7", " ", "d", "a", "y", "s", " ", "(", "0", ".", "0", "%", ")">>

\* C10 witness: a medication with 4294967295 doses prescribed, taken once
\* each on "W-0", "W-6" and "W-7": the summary for week "W" reports 2/7 days
\* and 4294967292 of 4294967295 doses
C10_Witness ==
    /\ \A i \in {0, 6, 7} : LoggedTrue(<<"W", "-", DigitChars[i + 1]>>, <<"A">>)
    /\ LET lines == Split(generate_weekly_summary(medications, daily_logs, <<"W">>,
                              CHOOSE ord \in Orders(DOMAIN medications) : TRUE), NL)
       IN  /\ \E j \in 1..Len(lines) : lines[j] = <<"A", "d", "h", "e", "r", "e", "n", "c", "e", ":", " ", "2", "/", "7", " ", "d", "a", "y", "s", " ", "(", "2", "8", ".", "6", "%", ")">>
           /\ \E j \in 1..Len(lines) : lines[j] = <<"R", "e", "m", "a", "i", "n", "i", "n", "g", ":", " ", "4", "2", "9", "4", "9", "6", "7", "2", "9", "2", " ", "o", "f", " ", "4", "2", "9", "4", "9", "6", "7", "2", "9", "5", " ", "d", "o", "s", "e", "s">>

\* C11: in a run that starts with no files, every flag in the daily logs is
\* the flag of a known medication; so in the daily overview of
\* generate_weekly_summary(week_start) the line of each day index i in 0..6
\* reports a taken count that is at most the number of medications and that,
\* added to the length of get_missed_medications("{week_start}-{i}"), gives
\* that number, and the line ends with " - MISSED: " and the joined missed
\* list exactly when some medication has no true flag for that date.
C11_LogsNameKnownMedications ==
    /\ \A d \in DOMAIN daily_logs :
          DOMAIN daily_logs[d].taken \subseteq DOMAIN medications
    /\ \A week_start \in WeekStarts, ord \in Orders(DOMAIN medications) :
        \A lines \in { Split(generate_weekly_summary(medications, daily_logs,
                                                      week_start, ord), NL) } :
            LET at == { j \in 1..Len(lines) : lines[j] = <<"D", "A", "I", "L", "Y", " ", "O", "V", "E", "R", "V", "I", "E", "W", ":">> }
            IN  /\ Cardinality(at) = 1
                /\ \A k \in at, i \in 0..6 :
                      LET date == week_start \o <<"-", DigitChars[i + 1]>>
                          total_meds == Cardinality(DOMAIN medications)
                          taken_meds == TakenMeds(daily_logs, date)
                          missed == get_missed_medications(medications, daily_logs, date, ord)
                          some_not_taken == \E n \in DOMAIN medications : ~LoggedTrue(date, n)
                      IN  /\ taken_meds <= total_meds
                          /\ taken_meds + Len(missed) = total_meds
                          /\ k + 1 + i <= Len(lines)
                          /\ lines[k + 1 + i] =
                                Days[i + 1] \o <<":", " ">> \o FormatU32(U32(0, taken_meds))
                                \o <<"/">> \o FormatU32(U32(0, total_meds))
                                \o <<" ", "m", "e", "d", "i", "c", "a", "t", "i", "o", "n", "s", " ", "t", "a", "k", "e", "n">>
                                \o (IF some_not_taken
                                    THEN <<" ", "-", " ", "M", "I", "S", "S", "E", "D", ":", " ">> \o Join(missed)
                                    ELSE <<>>)

\* C11 witness: of two medications one is marked taken on "W-6" and the
\* other is not: the overview of week "W" reports Sunday as 1/2 with the
\* other one missed
C11_Witness ==
    /\ DOMAIN medications = {<<"A">>, <<"B">>}
    /\ LoggedTrue(<<"W", "-", "6">>, <<"A">>)
    /\ ~LoggedTrue(<<"W", "-", "6">>, <<"B">>)
    /\ \A ord \in Orders(DOMAIN medications) :
          LET lines == Split(generate_weekly_summary(medications, daily_logs, <<"W">>, ord), NL)
          IN  \E j \in 1..Len(lines) : lines[j] = <<"S", "u", "n", ":", " ", "1", "/", "2", " ", "m", "e", "d", "i", "c", "a", "t", "i", "o", "n", "s", " ", "t", "a", "k", "e", "n", " ", "-", " ", "M", "I", "S", "S", "E", "D", ":", " ", "B", " ", "a", "t", " ", "m">>

\* every medication has 0 <= current_count <= total_prescribed
CountsOrdered(meds) ==
    \A n \in DOMAIN meds :
        /\ U32Leq(U32Zero, meds[n].current_count)
        /\ U32Leq(meds[n].current_count, meds[n].total_prescribed)

\* the step is a refill of a known medication one of whose additions leaves
\* the u32 range
RefillPastRange ==
    /\ calls' # calls
    /\ last'.op = "refill_medication"
    /\ last'.name \in DOMAIN medications
    /\ RefillOverflows(medications, last'.name, last'.count)

\* C12: in a run that starts with no files, every medication has
\* 0 <= current_count <= total_prescribed as long as no refill has pushed a
\* count past the u32 range: it holds of the empty store, and every call
\* other than such a refill, made where it holds, leaves it holding.
C12_CountsOrdered ==
    /\ CountsOrdered(medications)
    /\ [][ (CountsOrdered(medications) /\ ~RefillPastRange)
            => CountsOrdered(medications') ]_vars

\* C12 witness: a medication added with 1 dose, refilled by 1 and then marked
\* taken has 1 dose left of 2
C12_Witness ==
    /\ calls = 3
    /\ last.op = "mark_taken" /\ last.result = "ok" /\ last.taken
    /\ medications[last.name].current_count = U32One
    /\ medications[last.name].total_prescribed = U32(0, 2)

\* a refill past the u32 range is made in such a run and leaves more doses
\* than were prescribed
C12_PastRange ==
    /\ last.op = "refill_medication" /\ last.result = "ok"
    /\ ~CountsOrdered(medications)

====
